---- MODULE Spec2Model ----
(***************************************************************************)
(* Model of src/event.rs of i3ipc-rs: the per-category event decoders      *)
(* (the FromStr implementations), the Event union and the renderers (the   *)
(* Display implementations).                                               *)
(*                                                                         *)
(* A raw payload is the text handed to from_str.  serde_json's parser is a *)
(* library, so a payload is represented by what json::from_str makes of    *)
(* it: either a syntax error or a json::Value.  A json::Value is a tagged  *)
(* record: null, string, 64-bit integer, float, array, object.             *)
(***************************************************************************)
EXTENDS Integers, Sequences, FiniteSets, TLC

VARIABLES mark_cap, shutdown_cap, count, alive, last, rendered

vars == <<mark_cap, shutdown_cap, count, alive, last, rendered>>

-----------------------------------------------------------------------------
(* Bounds of the model.                                                    *)

\* Payloads handed to the decoders in one session.
MaxPayloads == 2
\* Longest event_state_mask array of a generated Binding payload.
MaxMods == 2

-----------------------------------------------------------------------------
(* Option<T>                                                               *)

None == [some |-> FALSE]

Some(v) == [some |-> TRUE, v |-> v]

-----------------------------------------------------------------------------
(* 64-bit integers.  TLC's integers are 32 bits wide, so an i64 is kept as *)
(* its two 32-bit words in two's complement: hi is the upper word read as  *)
(* a signed number, lo the lower word read as a signed number with the     *)
(* same bit pattern.  Its value is hi * 2^32 + (lo mod 2^32).              *)

I64(hi, lo) == [hi |-> hi, lo |-> lo]

\* The i64 with the value of the i32 n (sign extension).
I64From(n) == I64(IF n < 0 THEN -1 ELSE 0, n)

\* Whether the value of the i64 n lies in the signed 32-bit range.
FitsI32(n) == n.hi = (IF n.lo < 0 THEN -1 ELSE 0)

\* Mutant: the narrowing saturates at the ends of the i32 range.
AsI32_Saturating(n) ==
    IF n.hi = (IF n.lo < 0 THEN -1 ELSE 0) THEN n.lo
    ELSE IF n.hi < 0 THEN -2147483647 - 1
    ELSE 2147483647

\* x as i32 on an i64: keeps the low 32 bits.
AsI32(n) == n.lo

\* {} of an i64, for the values that fit TLC's integers.
DisplayI64(n) == ToString(n.lo)

-----------------------------------------------------------------------------
(* json::Value                                                             *)

JNull == [t |-> "null"]

JStr(s) == [t |-> "str", s |-> s]

JInt(n) == [t |-> "int", n |-> n]

\* A number from 2^63 to 2^64 - 1, which serde_json keeps as a u64: n holds
\* its two 32-bit words.
JUInt(n) == [t |-> "uint", n |-> n]

JFloat == [t |-> "float"]

JArr(a) == [t |-> "arr", a |-> a]

JObj(o) == [t |-> "obj", o |-> o]

\* Value::get(key): None unless the value is an object holding the key.
Value_get(val, key) ==
    IF val.t = "obj" /\ key \in DOMAIN val.o THEN Some(val.o[key]) ELSE None

\* Value::as_str
as_str(v) == IF v.t = "str" THEN Some(v.s) ELSE None

\* Value::as_array
as_array(v) == IF v.t = "arr" THEN Some(v.a) ELSE None

\* Value::as_i64: None for a u64 above i64::MAX, for a float and for a
\* non-number.
as_i64(v) == IF v.t = "int" THEN Some(v.n) ELSE None

\* A raw payload: text that is not JSON, or the text of a document.
BadText == [wf |-> FALSE]

TextOf(val) == [wf |-> TRUE, val |-> val]

\* json::from_str(s): Err on text that is not JSON.
json_from_str(s) ==
    IF s.wf THEN [ok |-> TRUE, val |-> s.val] ELSE [ok |-> FALSE]

-----------------------------------------------------------------------------
(* The discriminator enums of inner.  A variant is its enum and its      *)
(* identifier; derive(Debug) prints the identifier.                        *)

V(enum, name) == [enum |-> enum, name |-> name]

\* {:?} of a variant of an enum that derives Debug.
DebugEnum(v) == v.name

\* {:?} of a String: the text in double quotes (the names of the model
\* hold no character that Debug escapes).
DebugStr(s) == "\"" \o s \o "\""

\* {:?} of an Option<String>.
DebugOptStr(o) == IF o.some THEN "Some(" \o DebugStr(o.v) \o ")" ELSE "None"

\* impl Display for OutputChange
OutputChangeDisplay(c) ==
    CASE c.name = "Unspecified" -> "unspecified"
      [] c.name = "Unknown" -> "unknown"

\* impl Display for BindingChange
BindingChangeDisplay(c) ==
    CASE c.name = "Run" -> "run"
      [] c.name = "Unknown" -> "unknown"

\* impl Display for ShutdownChange
ShutdownChangeDisplay(c) ==
    CASE c.name = "Restart" -> "restart"
      [] c.name = "Exit" -> "exit"
      [] c.name = "Unknown" -> "unknown"

-----------------------------------------------------------------------------
(* The outcome of evaluating one field expression of a struct literal: a   *)
(* value and the diagnostics warn! emitted on the way, or a panic.         *)

FOk(v, diags) == [ok |-> TRUE, v |-> v, diags |-> diags]

FPanic(msg) == [ok |-> FALSE, msg |-> msg]

\* Option::unwrap() on None.
UnwrapNone == "called Option::unwrap() on a None value"

\* unreachable!()
Unreachable == "internal error: entered unreachable code"

\* obj.get(key).unwrap().as_str().unwrap()
StrField(obj, key) ==
    LET g == Value_get(obj, key) IN
    IF ~g.some THEN FPanic(UnwrapNone)
    ELSE LET a == as_str(g.v) IN
         IF ~a.some THEN FPanic(UnwrapNone) ELSE FOk(a.v, <<>>)

\* A match on a tag: the arm taken, and what the arm logs.
Arm(enum, name) == [v |-> V(enum, name), diags |-> <<>>]

OtherArm(enum, other) ==
    [v |-> V(enum, "Unknown"), diags |-> <<"Unknown " \o enum \o " " \o other>>]

\* The field expression match <obj>.get(key).unwrap().as_str().unwrap() {..}
\* whose match is m.
TagField(f, m) == IF ~f.ok THEN f ELSE FOk(m.v, m.diags)

\* The index of the first field expression that panics, 0 when none does.
FirstPanic(steps) ==
    IF \A i \in 1..Len(steps) : steps[i].ok THEN 0
    ELSE CHOOSE i \in 1..Len(steps) :
            /\ ~steps[i].ok
            /\ \A j \in 1..(i - 1) : steps[j].ok

RECURSIVE DiagsOf(_, _)
\* The diagnostics of the first n field expressions, in order.
DiagsOf(steps, n) ==
    IF n = 0 THEN <<>> ELSE DiagsOf(steps, n - 1) \o steps[n].diags

\* Result<_, json::error::Error> of a decoder, or the panic that unwinds it.
ErrResult == [kind |-> "Err", err |-> "Syntax", diags |-> <<>>]

PanicResult(steps) ==
    [kind |-> "Panic", msg |-> steps[FirstPanic(steps)].msg,
     diags |-> DiagsOf(steps, FirstPanic(steps) - 1)]

OkResult(info, steps) ==
    [kind |-> "Ok", v |-> info, diags |-> DiagsOf(steps, Len(steps))]

-----------------------------------------------------------------------------
(* The builders of common (the tree model; not part of event.rs).        *)

\* common::build_tree: the node of a sub-document, here its name and id.
build_tree(val) ==
    [name |-> LET n == Value_get(val, "name") IN
              IF n.some THEN as_str(n.v) ELSE None,
     id |-> val.o["id"].n]

\* common::build_bar_config: the bar configuration of a document.
build_bar_config(val) ==
    [id |-> val.o["id"].s, mode |-> val.o["mode"].s,
     position |-> val.o["position"].s,
     status_command |-> val.o["status_command"].s]

-----------------------------------------------------------------------------
(* WorkspaceEventInfo                                                      *)

\* Mutant: the tags are matched without regard to letter case.
WorkspaceChangeMatch_AnyCase(s) ==
    CASE s \in {"focus", "Focus"} -> Arm("WorkspaceChange", "Focus")
      [] s = "init" -> Arm("WorkspaceChange", "Init")
      [] s = "empty" -> Arm("WorkspaceChange", "Empty")
      [] s = "urgent" -> Arm("WorkspaceChange", "Urgent")
      [] s = "rename" -> Arm("WorkspaceChange", "Rename")
      [] s = "reload" -> Arm("WorkspaceChange", "Reload")
      [] s = "move" -> Arm("WorkspaceChange", "Move")
      [] s = "restored" -> Arm("WorkspaceChange", "Restored")
      [] OTHER -> OtherArm("WorkspaceChange", s)

WorkspaceChangeMatch(s) ==
    CASE s = "focus" -> Arm("WorkspaceChange", "Focus")
      [] s = "init" -> Arm("WorkspaceChange", "Init")
      [] s = "empty" -> Arm("WorkspaceChange", "Empty")
      [] s = "urgent" -> Arm("WorkspaceChange", "Urgent")
      [] s = "rename" -> Arm("WorkspaceChange", "Rename")
      [] s = "reload" -> Arm("WorkspaceChange", "Reload")
      [] s = "move" -> Arm("WorkspaceChange", "Move")
      [] s = "restored" -> Arm("WorkspaceChange", "Restored")
      [] OTHER -> OtherArm("WorkspaceChange", s)

WorkspaceChangeField(val) ==
    LET f == StrField(val, "change") IN
    TagField(f, IF f.ok THEN WorkspaceChangeMatch(f.v) ELSE f)

\* current: match val.get("current").unwrap().clone() { Null => None, .. }
WorkspaceCurrentField(val) ==
    LET g == Value_get(val, "current") IN
    IF ~g.some THEN FPanic(UnwrapNone)
    ELSE IF g.v = JNull THEN FOk(None, <<>>)
    ELSE FOk(Some(build_tree(g.v)), <<>>)

\* Mutant: old is read as current is, with unwrap() on a missing field.
WorkspaceOldField_Unwrap(val) ==
    LET g == Value_get(val, "old") IN
    IF ~g.some THEN FPanic(UnwrapNone)
    ELSE IF g.v = JNull THEN FOk(None, <<>>)
    ELSE FOk(Some(build_tree(g.v)), <<>>)

\* old: match val.get("old") { Some(o) => .., None => None }
WorkspaceOldField(val) ==
    LET g == Value_get(val, "old") IN
    IF g.some
    THEN IF g.v = JNull THEN FOk(None, <<>>)
         ELSE FOk(Some(build_tree(g.v)), <<>>)
    ELSE FOk(None, <<>>)

\* impl FromStr for WorkspaceEventInfo
WorkspaceFromStr(s) ==
    LET p == json_from_str(s) IN
    IF ~p.ok THEN ErrResult
    ELSE LET steps == <<WorkspaceChangeField(p.val),
                        WorkspaceCurrentField(p.val),
                        WorkspaceOldField(p.val)>> IN
         IF FirstPanic(steps) # 0 THEN PanicResult(steps)
         ELSE OkResult([change |-> steps[1].v, current |-> steps[2].v,
                        old |-> steps[3].v], steps)

\* Mutant: an absent node gives unknown for the name and for the id.
WorkspaceNodeText_PerField(o) ==
    IF o.some
    THEN DebugOptStr(o.v.name) \o " (" \o DisplayI64(o.v.id) \o ")"
    ELSE "unknown (unknown)"

\* The text of an optional node: its name with {:?} and its id in
\* parentheses, or the token unknown.
WorkspaceNodeText(o) ==
    IF o.some
    THEN DebugOptStr(o.v.name) \o " (" \o DisplayI64(o.v.id) \o ")"
    ELSE "unknown"

\* impl fmt::Display for WorkspaceEventInfo
WorkspaceFmt(e) ==
    DebugEnum(e.change) \o " change from " \o WorkspaceNodeText(e.old)
        \o " to " \o WorkspaceNodeText(e.current)

-----------------------------------------------------------------------------
(* OutputEventInfo                                                         *)

OutputChangeMatch(s) ==
    CASE s = "unspecified" -> Arm("OutputChange", "Unspecified")
      [] OTHER -> OtherArm("OutputChange", s)

OutputChangeField(val) ==
    LET f == StrField(val, "change") IN
    TagField(f, IF f.ok THEN OutputChangeMatch(f.v) ELSE f)

\* impl FromStr for OutputEventInfo
OutputFromStr(s) ==
    LET p == json_from_str(s) IN
    IF ~p.ok THEN ErrResult
    ELSE LET steps == <<OutputChangeField(p.val)>> IN
         IF FirstPanic(steps) # 0 THEN PanicResult(steps)
         ELSE OkResult([change |-> steps[1].v], steps)

\* impl fmt::Display for OutputEventInfo
OutputFmt(e) == OutputChangeDisplay(e.change) \o " output event"

-----------------------------------------------------------------------------
(* ModeEventInfo                                                           *)

\* impl FromStr for ModeEventInfo
ModeFromStr(s) ==
    LET p == json_from_str(s) IN
    IF ~p.ok THEN ErrResult
    ELSE LET steps == <<StrField(p.val, "change")>> IN
         IF FirstPanic(steps) # 0 THEN PanicResult(steps)
         ELSE OkResult([change |-> steps[1].v], steps)

\* impl fmt::Display for ModeEventInfo
ModeFmt(e) == e.change \o " mode"

-----------------------------------------------------------------------------
(* WindowEventInfo                                                         *)

\* Mutant: the mark arm is compiled in whatever the features are.
WindowChangeMatch_Ungated(s) ==
    CASE s = "new" -> Arm("WindowChange", "New")
      [] s = "close" -> Arm("WindowChange", "Close")
      [] s = "focus" -> Arm("WindowChange", "Focus")
      [] s = "title" -> Arm("WindowChange", "Title")
      [] s = "fullscreen_mode" -> Arm("WindowChange", "FullscreenMode")
      [] s = "move" -> Arm("WindowChange", "Move")
      [] s = "floating" -> Arm("WindowChange", "Floating")
      [] s = "urgent" -> Arm("WindowChange", "Urgent")
      [] s = "mark" -> Arm("WindowChange", "Mark")
      [] OTHER -> OtherArm("WindowChange", s)

\* The mark arm exists only under feature i3-4-13.
WindowChangeMatch(s) ==
    CASE s = "new" -> Arm("WindowChange", "New")
      [] s = "close" -> Arm("WindowChange", "Close")
      [] s = "focus" -> Arm("WindowChange", "Focus")
      [] s = "title" -> Arm("WindowChange", "Title")
      [] s = "fullscreen_mode" -> Arm("WindowChange", "FullscreenMode")
      [] s = "move" -> Arm("WindowChange", "Move")
      [] s = "floating" -> Arm("WindowChange", "Floating")
      [] s = "urgent" -> Arm("WindowChange", "Urgent")
      [] s = "mark" /\ mark_cap -> Arm("WindowChange", "Mark")
      [] OTHER -> OtherArm("WindowChange", s)

WindowChangeField(val) ==
    LET f == StrField(val, "change") IN
    TagField(f, IF f.ok THEN WindowChangeMatch(f.v) ELSE f)

\* container: common::build_tree(val.get("container").unwrap())
WindowContainerField(val) ==
    LET g == Value_get(val, "container") IN
    IF ~g.some THEN FPanic(UnwrapNone) ELSE FOk(build_tree(g.v), <<>>)

\* impl FromStr for WindowEventInfo
WindowFromStr(s) ==
    LET p == json_from_str(s) IN
    IF ~p.ok THEN ErrResult
    ELSE LET steps == <<WindowChangeField(p.val),
                        WindowContainerField(p.val)>> IN
         IF FirstPanic(steps) # 0 THEN PanicResult(steps)
         ELSE OkResult([change |-> steps[1].v, container |-> steps[2].v],
                       steps)

\* Mutant: the name is written with {:?}, as the Workspace renderer does.
WindowNameText_Debug(node) == DebugOptStr(node.name)

\* self.container.name.as_ref().unwrap_or(&"untitled".to_string())
WindowNameText(node) == IF node.name.some THEN node.name.v ELSE "untitled"

\* impl fmt::Display for WindowEventInfo
WindowFmt(e) ==
    DebugEnum(e.change) \o " event for window " \o WindowNameText(e.container)
        \o "; id: " \o DisplayI64(e.container.id)

-----------------------------------------------------------------------------
(* BarConfigEventInfo                                                      *)

\* impl FromStr for BarConfigEventInfo
BarConfigFromStr(s) ==
    LET p == json_from_str(s) IN
    IF ~p.ok THEN ErrResult
    ELSE OkResult([bar_config |-> build_bar_config(p.val)], <<>>)

\* impl fmt::Display for BarConfigEventInfo
BarConfigFmt(e) ==
    "bar id: " \o e.bar_config.id \o "; mode: " \o e.bar_config.mode
        \o "; position: " \o e.bar_config.position
        \o "; status command: " \o e.bar_config.status_command

-----------------------------------------------------------------------------
(* BindingEventInfo                                                        *)

BindingChangeMatch(s) ==
    CASE s = "run" -> Arm("BindingChange", "Run")
      [] OTHER -> OtherArm("BindingChange", s)

BindingChangeField(val) ==
    LET f == StrField(val, "change") IN
    TagField(f, IF f.ok THEN BindingChangeMatch(f.v) ELSE f)

\* Mutant: the modifier names are collected in reverse order.
BindingMaskField_Reversed(bind) ==
    LET g == Value_get(bind, "event_state_mask") IN
    IF ~g.some THEN FPanic(UnwrapNone)
    ELSE LET a == as_array(g.v) IN
         IF ~a.some THEN FPanic(UnwrapNone)
         ELSE IF \E i \in 1..Len(a.v) : ~as_str(a.v[i]).some
              THEN FPanic(UnwrapNone)
              ELSE FOk([i \in 1..Len(a.v) |->
                          as_str(a.v[Len(a.v) + 1 - i]).v], <<>>)

\* event_state_mask: the elements of the array, each through
\* as_str().unwrap().
BindingMaskField(bind) ==
    LET g == Value_get(bind, "event_state_mask") IN
    IF ~g.some THEN FPanic(UnwrapNone)
    ELSE LET a == as_array(g.v) IN
         IF ~a.some THEN FPanic(UnwrapNone)
         ELSE IF \E i \in 1..Len(a.v) : ~as_str(a.v[i]).some
              THEN FPanic(UnwrapNone)
              ELSE FOk([i \in 1..Len(a.v) |-> as_str(a.v[i]).v], <<>>)

\* input_code: bind.get("input_code").unwrap().as_i64().unwrap() as i32
BindingInputCodeField(bind) ==
    LET g == Value_get(bind, "input_code") IN
    IF ~g.some THEN FPanic(UnwrapNone)
    ELSE LET n == as_i64(g.v) IN
         IF ~n.some THEN FPanic(UnwrapNone) ELSE FOk(AsI32(n.v), <<>>)

\* symbol: String(s) => Some(s), Null => None, _ => unreachable!()
BindingSymbolField(bind) ==
    LET g == Value_get(bind, "symbol") IN
    IF ~g.some THEN FPanic(UnwrapNone)
    ELSE IF g.v.t = "str" THEN FOk(Some(g.v.s), <<>>)
    ELSE IF g.v.t = "null" THEN FOk(None, <<>>)
    ELSE FPanic(Unreachable)

InputTypeMatch(s) ==
    CASE s = "keyboard" -> Arm("InputType", "Keyboard")
      [] s = "mouse" -> Arm("InputType", "Mouse")
      [] OTHER -> OtherArm("InputType", s)

BindingInputTypeField(bind) ==
    LET f == StrField(bind, "input_type") IN
    TagField(f, IF f.ok THEN InputTypeMatch(f.v) ELSE f)

\* impl FromStr for BindingEventInfo
BindingFromStr(s) ==
    LET p == json_from_str(s) IN
    IF ~p.ok THEN ErrResult
    ELSE LET b == Value_get(p.val, "binding") IN
         IF ~b.some THEN PanicResult(<<FPanic(UnwrapNone)>>)
         ELSE LET steps == <<BindingChangeField(p.val),
                             StrField(b.v, "command"),
                             BindingMaskField(b.v),
                             BindingInputCodeField(b.v),
                             BindingSymbolField(b.v),
                             BindingInputTypeField(b.v)>> IN
              IF FirstPanic(steps) # 0 THEN PanicResult(steps)
              ELSE OkResult(
                     [change |-> steps[1].v,
                      binding |-> [command |-> steps[2].v,
                                   event_state_mask |-> steps[3].v,
                                   input_code |-> steps[4].v,
                                   symbol |-> steps[5].v,
                                   input_type |-> steps[6].v]], steps)

RECURSIVE join(_, _)
\* [String]::join(sep)
join(v, sep) ==
    IF Len(v) = 0 THEN ""
    ELSE IF Len(v) = 1 THEN v[1]
    ELSE v[1] \o sep \o join(Tail(v), sep)

\* self.binding.symbol.as_ref().unwrap_or(&"".to_string())
BindingSymbolText(b) == IF b.symbol.some THEN b.symbol.v ELSE ""

\* Mutant: the + before the symbol is written only when there is a symbol.
BindingFmt_NoTrailingPlus(e) ==
    DebugEnum(e.change) \o " '" \o e.binding.command \o "' "
        \o join(e.binding.event_state_mask, "+")
        \o (IF e.binding.symbol.some THEN "+" \o e.binding.symbol.v ELSE "")

\* impl fmt::Display for BindingEventInfo
BindingFmt(e) ==
    DebugEnum(e.change) \o " '" \o e.binding.command \o "' "
        \o join(e.binding.event_state_mask, "+") \o "+"
        \o BindingSymbolText(e.binding)

-----------------------------------------------------------------------------
(* ShutdownEventInfo (feature i3-4-14)                                     *)

ShutdownChangeMatch(s) ==
    CASE s = "restart" -> Arm("ShutdownChange", "Restart")
      [] s = "exit" -> Arm("ShutdownChange", "Exit")
      [] OTHER -> OtherArm("ShutdownChange", s)

ShutdownChangeField(val) ==
    LET f == StrField(val, "change") IN
    TagField(f, IF f.ok THEN ShutdownChangeMatch(f.v) ELSE f)

\* impl FromStr for ShutdownEventInfo
ShutdownFromStr(s) ==
    LET p == json_from_str(s) IN
    IF ~p.ok THEN ErrResult
    ELSE LET steps == <<ShutdownChangeField(p.val)>> IN
         IF FirstPanic(steps) # 0 THEN PanicResult(steps)
         ELSE OkResult([change |-> steps[1].v], steps)

\* impl fmt::Display for ShutdownEventInfo
ShutdownFmt(e) == ShutdownChangeDisplay(e.change) \o " event"

-----------------------------------------------------------------------------
(* Event                                                                   *)

\* The variants of Event; ShutdownEvent exists only under feature i3-4-14.
EventVariants ==
    {"WorkspaceEvent", "OutputEvent", "ModeEvent", "WindowEvent",
     "BarConfigEvent", "BindingEvent"}
        \cup (IF shutdown_cap THEN {"ShutdownEvent"} ELSE {})

\* impl fmt::Display for Event
EventFmt(variant, info) ==
    CASE variant = "WorkspaceEvent" -> WorkspaceFmt(info)
      [] variant = "WindowEvent" -> WindowFmt(info)
      [] variant = "OutputEvent" -> OutputFmt(info)
      [] variant = "ModeEvent" -> ModeFmt(info)
      [] variant = "BarConfigEvent" -> BarConfigFmt(info)
      [] variant = "BindingEvent" -> BindingFmt(info)
      [] variant = "ShutdownEvent" /\ shutdown_cap -> ShutdownFmt(info)

-----------------------------------------------------------------------------
(* The payloads the transport hands to the decoders.  A document is built  *)
(* from its fields; a field given as Absent is left out of the object.     *)

Absent == [t |-> "absent"]

Doc(fields) ==
    JObj([k \in {x \in DOMAIN fields : fields[x] # Absent} |-> fields[k]])

\* The sub-document of a tree node: its id and its name (null when unnamed).
NodeDoc(name, id) == JObj([id |-> JInt(I64From(id)), name |-> name])

NodeDocs == {NodeDoc(JStr("Firefox"), 1234), NodeDoc(JNull, 5)}

\* A value that is no string.
NotAString == JInt(I64From(1))

\* The payloads of a category with the single field change.
ChangeOnlyPayloads(tags) ==
    {BadText} \cup {TextOf(Doc([change |-> c])) :
                      c \in {JStr(t) : t \in tags} \cup {NotAString, Absent}}

WorkspaceTagInputs ==
    {"focus", "init", "empty", "urgent", "rename", "reload", "move",
     "restored", "Focus", "mark"}

WorkspacePayloads ==
    {BadText} \cup
    {TextOf(Doc([change |-> c, current |-> cur, old |-> old])) :
        c \in {JStr(t) : t \in WorkspaceTagInputs} \cup {NotAString, Absent},
        cur \in NodeDocs \cup {JNull, Absent},
        old \in NodeDocs \cup {JNull, Absent}}

OutputPayloads ==
    ChangeOnlyPayloads({"unspecified", "Unspecified", "connected"})

ModePayloads == ChangeOnlyPayloads({"default", "resize", "Run"})

WindowTagInputs ==
    {"new", "close", "focus", "title", "fullscreen_mode", "move", "floating",
     "urgent", "mark", "Focus", "Mark", "reparent"}

WindowPayloads ==
    {BadText} \cup
    {TextOf(Doc([change |-> c, container |-> n])) :
        c \in {JStr(t) : t \in WindowTagInputs} \cup {NotAString, Absent},
        n \in NodeDocs \cup {Absent}}

BarDoc(id, mode, position, status_command) ==
    JObj([id |-> JStr(id), mode |-> JStr(mode), position |-> JStr(position),
          status_command |-> JStr(status_command)])

BarConfigPayloads ==
    {BadText, TextOf(BarDoc("mybar", "dock", "top", "i3blocks")),
     TextOf(BarDoc("bar-0", "hide", "bottom", "i3status"))}

ShutdownPayloads == ChangeOnlyPayloads({"restart", "exit", "Exit", "suspend"})

Mods == {"Mod4", "shift"}

\* The event_state_mask arrays of at most MaxMods modifier names.
MaskArrays ==
    {JArr([i \in 1..Len(f) |-> JStr(f[i])]) :
        f \in UNION {[1..k -> Mods] : k \in 0..MaxMods}}

Commands == {"[con_mark=\"F1\"] focus", "exec st"}

\* input_code values: 0, 38, -1, 2^31, 2^32 + 38, -2^32 + 5.
InputCodes ==
    {I64From(0), I64From(38), I64From(-1), I64(0, -2147483647 - 1),
     I64(1, 38), I64(-1, 5)}

\* The input_code 2^63 + 38, an integer no i64 holds.
BigCode == JUInt(I64(-2147483647 - 1, 38))

BindingDoc(c, cmd, mask, code, sym, ty) ==
    Doc([change |-> c,
         binding |-> Doc([command |-> cmd, event_state_mask |-> mask,
                          input_code |-> code, symbol |-> sym,
                          input_type |-> ty])])

\* The fields of the binding i3 reports for bindsym Mod4+F1.
BaseCommand == JStr("[con_mark=\"F1\"] focus")

BaseMask == JArr(<<JStr("Mod4")>>)

BaseCode == JInt(I64From(38))

BaseSymbol == JStr("F1")

BaseType == JStr("keyboard")

\* Complete documents: every change, command, mask and symbol.
BindingTextDocs ==
    {BindingDoc(JStr(c), JStr(cmd), mask, BaseCode, sym, BaseType) :
        c \in {"run", "Run"}, cmd \in Commands, mask \in MaskArrays,
        sym \in {JNull, JStr("F1")}}

\* Complete documents: every change, input code and input type.
BindingCodeDocs ==
    {BindingDoc(JStr(c), BaseCommand, BaseMask, JInt(code), BaseSymbol,
                JStr(ty)) :
        c \in {"run", "Run", "release"}, code \in InputCodes,
        ty \in {"keyboard", "mouse", "Keyboard", "touch"}}

\* Documents in which one field of the binding is missing or of another
\* type, under the change c.
BindingDefectsOf(c) ==
    {BindingDoc(c, x, BaseMask, BaseCode, BaseSymbol, BaseType) :
        x \in {Absent, NotAString}}
    \cup {BindingDoc(c, BaseCommand, x, BaseCode, BaseSymbol, BaseType) :
        x \in {Absent, JStr("Mod4"), JArr(<<JStr("Mod4"), NotAString>>)}}
    \cup {BindingDoc(c, BaseCommand, BaseMask, x, BaseSymbol, BaseType) :
        x \in {Absent, JFloat, JStr("38"), BigCode}}
    \cup {BindingDoc(c, BaseCommand, BaseMask, BaseCode, x, BaseType) :
        x \in {Absent, JInt(I64From(65))}}
    \cup {BindingDoc(c, BaseCommand, BaseMask, BaseCode, BaseSymbol, x) :
        x \in {Absent, JNull}}

\* Documents with a field missing or of another type.
BindingDefectDocs ==
    {BindingDoc(x, BaseCommand, BaseMask, BaseCode, BaseSymbol, BaseType) :
        x \in {Absent, NotAString}}
    \cup UNION {BindingDefectsOf(JStr(c)) : c \in {"run", "Run"}}
    \cup {Doc([change |-> JStr("run")]),
          Doc([change |-> JStr("run"), binding |-> JNull])}

BindingPayloads ==
    {BadText} \cup
    {TextOf(d) : d \in BindingTextDocs \cup BindingCodeDocs
                          \cup BindingDefectDocs}

-----------------------------------------------------------------------------
(* The session: the capabilities the build was configured with, and the    *)
(* payloads decoded one after another by the thread that owns it.          *)
(*   count     payloads handed to a decoder so far                         *)
(*   alive     FALSE once a decoder has panicked and unwound the thread    *)
(*   last      the last payload, its category and what the decoder gave    *)
(*   rendered  the text of the last event, once it has been rendered       *)

Init ==
    /\ mark_cap \in BOOLEAN
    /\ shutdown_cap \in BOOLEAN
    /\ count = 0
    /\ alive = TRUE
    /\ last = [cat |-> "none"]
    /\ rendered = None

\* The thread still runs and the session has payloads left.
CanDecode == alive /\ count < MaxPayloads

\* The outcome res of the decoder of category cat on payload s reaches the
\* caller: a panic unwinds the thread.
Handed(cat, s, res) ==
    /\ count' = count + 1
    /\ last' = [cat |-> cat, payload |-> s, res |-> res]
    /\ alive' = (res.kind # "Panic")
    /\ rendered' = None
    /\ UNCHANGED <<mark_cap, shutdown_cap>>

DecodeWorkspace ==
    /\ \E s \in WorkspacePayloads :
          CanDecode /\ Handed("WorkspaceEvent", s, WorkspaceFromStr(s))

DecodeOutput ==
    /\ \E s \in OutputPayloads : CanDecode /\ Handed("OutputEvent", s, OutputFromStr(s))

DecodeMode ==
    /\ \E s \in ModePayloads : CanDecode /\ Handed("ModeEvent", s, ModeFromStr(s))

DecodeWindow ==
    /\ \E s \in WindowPayloads : CanDecode /\ Handed("WindowEvent", s, WindowFromStr(s))

DecodeBarConfig ==
    /\ \E s \in BarConfigPayloads :
          CanDecode /\ Handed("BarConfigEvent", s, BarConfigFromStr(s))

DecodeBinding ==
    /\ \E s \in BindingPayloads :
          CanDecode /\ Handed("BindingEvent", s, BindingFromStr(s))

\* ShutdownEventInfo and its decoder exist only under feature i3-4-14.
DecodeShutdown ==
    /\ shutdown_cap
    /\ \E s \in ShutdownPayloads :
          CanDecode /\ Handed("ShutdownEvent", s, ShutdownFromStr(s))

\* The caller renders the event the last payload decoded to.
Render ==
    /\ alive
    /\ last.cat # "none"
    /\ last.res.kind = "Ok"
    /\ rendered = None
    /\ rendered' = Some(EventFmt(last.cat, last.res.v))
    /\ UNCHANGED <<mark_cap, shutdown_cap, count, alive, last>>

Next ==
    \/ DecodeWorkspace
    \/ DecodeOutput
    \/ DecodeMode
    \/ DecodeWindow
    \/ DecodeBarConfig
    \/ DecodeBinding
    \/ DecodeShutdown
    \/ Render

Spec == Init /\ [][Next]_vars

-----------------------------------------------------------------------------
(* What the claims speak of: the last payload as a document, read without  *)
(* the decoders.                                                           *)

\* A payload has been decoded and it was the text of a document.
DecodedDoc(cat) == last.cat = cat /\ last.payload.wf

\* The fields of the last document.
LastObj == last.payload.val.o

\* The document's binding object, when it has one.
LastBinding == LastObj["binding"].o

HasStr(o, k) == k \in DOMAIN o /\ o[k].t = "str"

\* The known-tag tables, each tag with the name of its variant.
WorkspaceTable ==
    [focus |-> "Focus", init |-> "Init", empty |-> "Empty",
     urgent |-> "Urgent", rename |-> "Rename", reload |-> "Reload",
     move |-> "Move", restored |-> "Restored"]

OutputTable == [unspecified |-> "Unspecified"]

WindowBaseTable ==
    [new |-> "New", close |-> "Close", focus |-> "Focus", title |-> "Title",
     fullscreen_mode |-> "FullscreenMode", move |-> "Move",
     floating |-> "Floating", urgent |-> "Urgent"]

WindowTable ==
    IF mark_cap
    THEN [t \in DOMAIN WindowBaseTable \cup {"mark"} |->
            IF t = "mark" THEN "Mark" ELSE WindowBaseTable[t]]
    ELSE WindowBaseTable

BindingTable == [run |-> "Run"]

ShutdownTable == [restart |-> "Restart", exit |-> "Exit"]

InputTypeTable == [keyboard |-> "Keyboard", mouse |-> "Mouse"]

\* The variant name a table gives a tag: Unknown outside the table.
NameIn(table, tag) == IF tag \in DOMAIN table THEN table[tag] ELSE "Unknown"

\* A binding object with every mandatory field, each of its type.
ValidBinding(b) ==
    /\ b.t = "obj"
    /\ HasStr(b.o, "command")
    /\ "event_state_mask" \in DOMAIN b.o
    /\ b.o["event_state_mask"].t = "arr"
    /\ \A i \in 1..Len(b.o["event_state_mask"].a) :
          b.o["event_state_mask"].a[i].t = "str"
    /\ "input_code" \in DOMAIN b.o
    /\ b.o["input_code"].t = "int"
    /\ "symbol" \in DOMAIN b.o
    /\ b.o["symbol"].t \in {"str", "null"}
    /\ HasStr(b.o, "input_type")

\* The last document is valid for its category, whatever its tags are.
ValidDoc ==
    /\ last.cat # "none"
    /\ last.payload.wf
    /\ last.cat # "BarConfigEvent" => HasStr(LastObj, "change")
    /\ last.cat = "WorkspaceEvent" => "current" \in DOMAIN LastObj
    /\ last.cat = "WindowEvent" => "container" \in DOMAIN LastObj
    /\ last.cat = "BindingEvent" =>
          "binding" \in DOMAIN LastObj /\ ValidBinding(LastObj["binding"])

\* The table of the change field of a category.
ChangeTable(cat) ==
    CASE cat = "WorkspaceEvent" -> WorkspaceTable
      [] cat = "OutputEvent" -> OutputTable
      [] cat = "WindowEvent" -> WindowTable
      [] cat = "BindingEvent" -> BindingTable
      [] cat = "ShutdownEvent" -> ShutdownTable

DiscriminatorCats ==
    {"WorkspaceEvent", "OutputEvent", "WindowEvent", "BindingEvent",
     "ShutdownEvent"}

-----------------------------------------------------------------------------
\* C1: a discriminator value outside its known-tag table (a known tag in
\* another letter case included) never fails the decoding of an otherwise
\* valid payload: the field decodes to Unknown.
C1_UnknownTagDegrades ==
    ValidDoc =>
        /\ (/\ last.cat \in DiscriminatorCats
            /\ LastObj["change"].s \notin DOMAIN ChangeTable(last.cat))
              => /\ last.res.kind = "Ok"
                 /\ last.res.v.change.name = "Unknown"
        /\ (/\ last.cat = "BindingEvent"
            /\ LastBinding["input_type"].s \notin DOMAIN InputTypeTable)
              => /\ last.res.kind = "Ok"
                 /\ last.res.v.binding.input_type.name = "Unknown"

\* C1 witness: a Workspace payload tagged Focus, which differs from the known
\* tag focus in letter case only, has decoded to Unknown.
C1_Witness ==
    /\ DecodedDoc("WorkspaceEvent")
    /\ ValidDoc
    /\ LastObj["change"] = JStr("Focus")
    /\ last.res.kind = "Ok"
    /\ last.res.v.change = V("WorkspaceChange", "Unknown")

\* The mandatory fields of the last document that are absent.
MissingFields ==
    (IF last.cat # "BarConfigEvent" /\ "change" \notin DOMAIN LastObj
     THEN {"change"} ELSE {})
    \cup (IF last.cat = "WindowEvent" /\ "container" \notin DOMAIN LastObj
          THEN {"container"} ELSE {})
    \cup (IF /\ last.cat = "BindingEvent"
             /\ "binding" \in DOMAIN LastObj
             /\ LastObj["binding"].t = "obj"
          THEN {"command", "event_state_mask", "input_code", "symbol",
                "input_type"} \ DOMAIN LastBinding
          ELSE {})

\* C2: a structurally valid payload that lacks a mandatory field of its
\* category is answered with a MissingRequiredField error value.
C2_MissingFieldIsError ==
    (/\ last.cat # "none"
     /\ last.payload.wf
     /\ MissingFields # {})
        => /\ last.res.kind = "Err"
           /\ last.res.err = "MissingRequiredField"

\* The last payload is one whose decoding fails: no document, a mandatory
\* field absent, or a field of an unexpected type.
FailingPayload ==
    /\ last.cat # "none"
    /\ (~last.payload.wf \/ ~ValidDoc)

\* C3: a payload whose decoding fails gives the caller an error value for
\* that payload, and the session goes on to the next payload: processing is
\* never aborted.
C3_FailureStaysPerPayload ==
    /\ alive
    /\ FailingPayload => last.res.kind = "Err"

\* The tree node a node sub-document describes.
NodeOf(d) ==
    [name |-> IF d.o["name"].t = "str" THEN Some(d.o["name"].s) ELSE None,
     id |-> d.o["id"].n]

\* What an optional node field of a document must decode to.
OptNodeOf(o, k) ==
    IF k \notin DOMAIN o \/ o[k] = JNull THEN None ELSE Some(NodeOf(o[k]))

\* C4: in a Workspace payload a null current, a null old and a missing old
\* decode to absent, a non-null current or old decodes to the node of that
\* sub-document, and a document without current is not decoded.
C4_WorkspaceOptionalNodes ==
    DecodedDoc("WorkspaceEvent") =>
        /\ "current" \notin DOMAIN LastObj => last.res.kind # "Ok"
        /\ ValidDoc =>
              /\ last.res.kind = "Ok"
              /\ last.res.v.current = OptNodeOf(LastObj, "current")
              /\ last.res.v.old = OptNodeOf(LastObj, "old")

\* C4 witness: a document with a current node and no old field has decoded
\* to that node and an absent old.
C4_Witness ==
    /\ DecodedDoc("WorkspaceEvent")
    /\ ValidDoc
    /\ "old" \notin DOMAIN LastObj
    /\ LastObj["current"] = NodeDoc(JStr("Firefox"), 1234)
    /\ last.res.kind = "Ok"
    /\ last.res.v.old = None
    /\ last.res.v.current
          = Some([name |-> Some("Firefox"), id |-> I64From(1234)])

\* C5: a valid Workspace payload whose current and old are both null or
\* absent renders as the variant name of its change followed by
\* " change from unknown to unknown".
C5_WorkspaceUnknownNodes ==
    (/\ DecodedDoc("WorkspaceEvent")
     /\ ValidDoc
     /\ OptNodeOf(LastObj, "current") = None
     /\ OptNodeOf(LastObj, "old") = None)
        => /\ last.res.kind = "Ok"
           /\ last.res.v.current = None
           /\ last.res.v.old = None
           /\ rendered.some =>
                 rendered.v = NameIn(WorkspaceTable, LastObj["change"].s)
                                 \o " change from unknown to unknown"

\* C5 witness: the payload with change empty and both nodes null has been
\* rendered as Empty change from unknown to unknown.
C5_Witness ==
    /\ last.cat = "WorkspaceEvent"
    /\ last.payload
          = TextOf(Doc([change |-> JStr("empty"), current |-> JNull,
                        old |-> JNull]))
    /\ last.res.kind = "Ok"
    /\ last.res.v = [change |-> V("WorkspaceChange", "Empty"),
                     current |-> None, old |-> None]
    /\ rendered = Some("Empty change from unknown to unknown")

\* The text the spec gives a node of a Workspace event: its bare name and
\* its id in parentheses, or the token unknown.
BareNodeText(o) ==
    IF o.some THEN o.v.name.v \o " (" \o DisplayI64(o.v.id) \o ")"
    ELSE "unknown"

\* C6: a Workspace event renders each present node as its bare name followed
\* by its id in parentheses, old in the from position and current in the to
\* position, and an absent node as unknown.
C6_WorkspaceNodeText ==
    (/\ last.cat = "WorkspaceEvent"
     /\ last.res.kind = "Ok"
     /\ rendered.some
     /\ last.res.v.old.some => last.res.v.old.v.name.some
     /\ last.res.v.current.some => last.res.v.current.v.name.some)
        => rendered.v = last.res.v.change.name \o " change from "
                           \o BareNodeText(last.res.v.old) \o " to "
                           \o BareNodeText(last.res.v.current)

RECURSIVE PlusJoined(_, _)
\* The first n modifier names, in order, with a + between neighbours.
PlusJoined(mods, n) ==
    IF n = 0 THEN ""
    ELSE IF n = 1 THEN mods[1]
    ELSE PlusJoined(mods, n - 1) \o "+" \o mods[n]

\* C7: a Binding event renders as its change, its command in single quotes,
\* its modifier names in order joined by +, then + and the symbol, the
\* symbol being empty when absent (the text then ends with +).
C7_BindingText ==
    (/\ last.cat = "BindingEvent"
     /\ last.res.kind = "Ok"
     /\ rendered.some)
        => LET b == last.res.v.binding IN
           /\ rendered.v
                 = last.res.v.change.name \o " '" \o b.command \o "' "
                      \o PlusJoined(b.event_state_mask, Len(b.event_state_mask))
                      \o "+" \o (IF b.symbol.some THEN b.symbol.v ELSE "")
           /\ (/\ last.res.v.change.name = "Run"
               /\ b.command = "[con_mark=\"F1\"] focus"
               /\ b.event_state_mask = <<"Mod4">>
               /\ b.symbol = Some("F1"))
                 => rendered.v = "Run '[con_mark=\"F1\"] focus' Mod4+F1"

\* C7 witness: a binding of two modifiers and no symbol has been rendered
\* with a trailing +.
C7_Witness ==
    /\ last.cat = "BindingEvent"
    /\ last.res.kind = "Ok"
    /\ last.res.v.binding.event_state_mask = <<"shift", "Mod4">>
    /\ last.res.v.binding.symbol = None
    /\ rendered = Some("Run 'exec st' shift+Mod4+")

\* C8 (state part): under the Mark capability a Window payload tagged mark
\* decodes to Mark; without it the payload decodes to Unknown and no decode
\* gives Mark; without the Shutdown capability no decode gives a Shutdown
\* event, and every event is a variant the build has.
C8_GatedVariants ==
    /\ (/\ DecodedDoc("WindowEvent")
        /\ ValidDoc
        /\ LastObj["change"] = JStr("mark"))
          => /\ last.res.kind = "Ok"
             /\ last.res.v.change.name = (IF mark_cap THEN "Mark" ELSE "Unknown")
    /\ (~mark_cap /\ last.cat = "WindowEvent" /\ last.res.kind = "Ok")
          => last.res.v.change.name # "Mark"
    /\ ~shutdown_cap => last.cat # "ShutdownEvent"
    /\ last.cat # "none" => last.cat \in EventVariants

\* C8: the capabilities are fixed for the session, never changed by a
\* message, and they gate Mark and the Shutdown events as C8_GatedVariants
\* says.
C8_CapabilityGating ==
    /\ []C8_GatedVariants
    /\ [][mark_cap' = mark_cap /\ shutdown_cap' = shutdown_cap]_vars

\* C8 witness: without the Mark capability a Window payload tagged mark has
\* decoded to Unknown.
C8_Witness ==
    /\ ~mark_cap
    /\ DecodedDoc("WindowEvent")
    /\ ValidDoc
    /\ LastObj["change"] = JStr("mark")
    /\ last.res.kind = "Ok"
    /\ last.res.v.change = V("WindowChange", "Unknown")

\* The tag a table gives a variant name.
TagIn(table, name) == CHOOSE t \in DOMAIN table : table[t] = name

\* The tag the change of an event of category cat maps back to.
ChangeTagOf(cat, change) ==
    CASE cat = "OutputEvent" -> OutputChangeDisplay(change)
      [] cat = "BindingEvent" -> BindingChangeDisplay(change)
      [] cat = "ShutdownEvent" -> ShutdownChangeDisplay(change)
      [] OTHER -> TagIn(ChangeTable(cat), change.name)

\* The serialised document: the text json::from_str reads back as val.
Serialise(val) == TextOf(val)

\* The modifier lists of at most MaxMods names.
ModLists == UNION {[1..k -> Mods] : k \in 0..MaxMods}

\* The array of a modifier list.
MaskOf(mods) == JArr([i \in 1..Len(mods) |-> JStr(mods[i])])

\* The symbol value of an optional symbol.
SymbolOf(sym) == IF sym.some THEN JStr(sym.v) ELSE JNull

\* Decoding the Binding document built from inputs with an input code in
\* codes gives the inputs back.
BindingRoundTrip(codes) ==
    \A c \in DOMAIN BindingTable, cmd \in Commands, mods \in ModLists,
       code \in codes, sym \in {None, Some("F1")},
       ty \in DOMAIN InputTypeTable :
        (/\ last.cat = "BindingEvent"
         /\ last.payload
               = Serialise(BindingDoc(JStr(c), JStr(cmd), MaskOf(mods),
                                      JInt(code), SymbolOf(sym), JStr(ty))))
            => /\ last.res.kind = "Ok"
               /\ BindingChangeDisplay(last.res.v.change) = c
               /\ last.res.v.binding.command = cmd
               /\ last.res.v.binding.event_state_mask = mods
               /\ I64From(last.res.v.binding.input_code) = code
               /\ last.res.v.binding.symbol = sym
               /\ TagIn(InputTypeTable, last.res.v.binding.input_type.name)
                     = ty

\* Decoding a document of another category built from a known tag, or from
\* a mode name, gives the tag or the name back.
ChangeRoundTrip ==
    /\ (/\ ValidDoc
        /\ last.cat \in DiscriminatorCats \ {"BindingEvent"}
        /\ LastObj["change"].s \in DOMAIN ChangeTable(last.cat))
          => /\ last.res.kind = "Ok"
             /\ ChangeTagOf(last.cat, last.res.v.change) = LastObj["change"].s
    /\ (ValidDoc /\ last.cat = "ModeEvent")
          => /\ last.res.kind = "Ok"
             /\ last.res.v.change = LastObj["change"].s

\* C9 as stated: decoding the serialised document built from a known tag, a
\* mode name, or a Binding's command, modifier list, input code, optional
\* symbol and input type gives back the tag and the inputs, for every input
\* code a document can hold.
C9_RoundTripAnyCode == ChangeRoundTrip /\ BindingRoundTrip(InputCodes)

\* C9 amended: the same, for the input codes within the signed 32-bit
\* range.
C9_RoundTripI32Code ==
    ChangeRoundTrip /\ BindingRoundTrip({n \in InputCodes : FitsI32(n)})

\* C9 witness: the document built from run, a command, two modifiers, the
\* input code 38, no symbol and keyboard has decoded to those inputs.
C9_Witness ==
    /\ last.cat = "BindingEvent"
    /\ \E mask \in MaskArrays :
          /\ Len(mask.a) = 2
          /\ last.payload
                = Serialise(BindingDoc(JStr("run"), JStr("exec st"), mask,
                                       JInt(I64From(38)), JNull,
                                       JStr("keyboard")))
    /\ last.res.kind = "Ok"
    /\ last.res.v.binding.input_code = 38
    /\ Len(last.res.v.binding.event_state_mask) = 2
    /\ last.res.v.binding.symbol = None

\* C10: a Window event renders as its change, " event for window ", the
\* container's bare name or untitled when it has none, "; id: " and the
\* container's id; and a decoded Window event can always be rendered.
C10_WindowText ==
    (last.cat = "WindowEvent" /\ last.res.kind = "Ok") =>
        LET e == last.res.v IN
        /\ (alive /\ ~rendered.some) => ENABLED Render
        /\ rendered.some =>
              /\ rendered.v
                    = NameIn(WindowTable, LastObj["change"].s)
                         \o " event for window "
                         \o (IF e.container.name.some
                             THEN e.container.name.v ELSE "untitled")
                         \o "; id: " \o DisplayI64(e.container.id)
              /\ (/\ e.change.name = "Focus"
                  /\ e.container.name = Some("Firefox")
                  /\ e.container.id = I64From(1234))
                    => rendered.v = "Focus event for window Firefox; id: 1234"

\* C10 witness: a Window event whose container has no name has been rendered
\* with untitled.
C10_Witness ==
    /\ last.cat = "WindowEvent"
    /\ last.res.kind = "Ok"
    /\ last.res.v.container.name = None
    /\ rendered = Some("Title event for window untitled; id: 5")

\* The last document is a Binding document that is valid but perhaps for
\* its input_code, which is an integer.
IntegerCodeDoc ==
    /\ DecodedDoc("BindingEvent")
    /\ HasStr(LastObj, "change")
    /\ "binding" \in DOMAIN LastObj
    /\ LastObj["binding"].t = "obj"
    /\ "input_code" \in DOMAIN LastBinding
    /\ LastBinding["input_code"].t \in {"int", "uint"}
    /\ ValidBinding(JObj([k \in DOMAIN LastBinding |->
                            IF k = "input_code" THEN BaseCode
                            ELSE LastBinding[k]]))

\* The value of the integer n reduced modulo 2^32 into the signed 32-bit
\* range: the number whose bits are the low word of n.
Wrapped32(n) == n.lo

\* Decoding succeeded and input_code is the document's integer reduced modulo
\* 2^32, which is the integer itself when it is within the i32 range.
CodeTruncated ==
    /\ last.res.kind = "Ok"
    /\ last.res.v.binding.input_code
          = Wrapped32(LastBinding["input_code"].n)
    /\ (/\ LastBinding["input_code"].t = "int"
        /\ FitsI32(LastBinding["input_code"].n))
          => I64From(last.res.v.binding.input_code)
                = LastBinding["input_code"].n

\* C11 as stated: whatever integer the document gives as input_code,
\* decoding succeeds and input_code is that integer, reduced modulo 2^32
\* into the signed 32-bit range when it is outside that range.
C11_TruncatesAnyInteger == IntegerCodeDoc => CodeTruncated

\* C11 amended: the same, for the integers a signed 64-bit integer holds.
C11_TruncatesI64 ==
    (IntegerCodeDoc /\ LastBinding["input_code"].t = "int") => CodeTruncated

\* C11 witness: the document with input_code 2^32 + 38 has decoded, without
\* an error, to input_code 38.
C11_Witness ==
    /\ IntegerCodeDoc
    /\ LastBinding["input_code"] = JInt(I64(1, 38))
    /\ last.res.kind = "Ok"
    /\ last.res.v.binding.input_code = 38

====
